---- MODULE Spec2Model ----
(***************************************************************************)
(* The reconciliation engine of the ALB ingress controller                 *)
(* (controller/controller.go): OnUpdate (diff cycle), assembleIngresses    *)
(* (bootstrap resync), ingressToDelete, validIngress, Reload, StateHandler *)
(* and GetServiceNodePort.                                                 *)
(***************************************************************************)
EXTENDS Integers, Sequences, FiniteSets, TLC

VARIABLES
    IngressClass,   \* ac.IngressClass
    store,          \* ac.storeLister.Ingress: identity -> ingress resource or NoSpec
    ALBIngresses,   \* ac.ALBIngresses; the nil slice is the empty sequence
    pc,             \* position of the sync goroutine
    upc,            \* position of each discovery goroutine of assembleIngresses
    ulocal,         \* the locals of each discovery goroutine
    refs,           \* ac.ALBIngresses as a slice of pointers while assembling
    objLbs,         \* LoadBalancers field of the objects the discovery goroutines made
    newList,        \* OnUpdate's local ALBIngresses, as the loop of the last cycle left it
    deletable,      \* OnUpdate's local deletable of the last cycle
    pending,        \* indexes whose Reconcile goroutine has not called wg.Done
    prevSet,        \* ac.ALBIngresses as ingressToDelete found it in the last cycle
    listed,         \* what storeLister.Ingress.List() returned in the last cycle
    fresh,          \* ALBIngresses is what the last cycle stored (no Reload since)
    repeat,         \* the last cycle repeated the one before it, without bootstrap
    assembled,      \* assembleIngresses has been entered at least once
    raced,          \* two discovery goroutines were between find and append together
    ran,            \* per entity of the set Reload was given: Reconcile calls made for it
    ret,            \* what the last Reload returned, "none" before it returns
    listErr,        \* DescribeLoadBalancers returned an error
    gone,           \* identities dropped after teardown whose resource is absent since
    services,       \* ac.storeLister.Service: service key -> service or NoService
    call,           \* arguments of the GetServiceNodePort call
    result          \* what the GetServiceNodePort call returned

vars == <<IngressClass, store, ALBIngresses, pc, upc, ulocal, refs, objLbs,
          newList, deletable, pending, prevSet, listed, fresh, repeat, assembled,
          raced, ran, ret, listErr, gone, services, call, result>>

portVars == <<services, call, result>>

ctlVars == <<IngressClass, store, ALBIngresses, pc, upc, ulocal, refs, objLbs,
             newList, deletable, pending, prevSet, listed, fresh, repeat, assembled,
             raced, ran, ret, listErr, gone>>

----------------------------------------------------------------------------
(* Bounds and the finite universe of the model *)

\* load balancer handles are 1..MaxArn: two of one identity and one of another
\* (a fourth has a name that gives no identity)
MaxArn == 3

Arns == 1..MaxArn

\* a service declares at most MaxPorts ports
MaxPorts == 2

\* identities (namespace/name)
Ids == {"ns/foo", "ns/bar"}

NoId == "none"

NoAnn == "absent"

\* the store holds no resource for an identity
NoSpec == [id |-> NoId, ann |-> NoAnn, outcome |-> "nil"]

\* values of the kubernetes.io/ingress.class annotation (NoAnn: key not set)
ClassAnns == {NoAnn, "alb", "ALB"}

\* what NewALBIngressFromIngress returns for a resource: an entity, an entity
\* with an error, or nil
Outcomes == {"ok", "partial", "nil"}

Empty == "empty"

\* the ingress resources the store can hold for one identity
SpecsOf(id) ==
    {s \in [id : {id}, ann : ClassAnns, outcome : Outcomes] :
        s.ann = "alb" \/ s.outcome = "ok"}

\* identity that the naming convention of a load balancer reverses to
OwnerOf(arn) ==
    IF arn <= 2 THEN "ns/foo"
    ELSE IF arn = 4 THEN NoId
    ELSE "ns/bar"

\* keys of the service store
ServiceKeys == {"ns/svc"}

\* Spec.Ports entries: Port is the service port, NodePort the port on the nodes
ServicePorts == [Port : {80, 443}, NodePort : {30080, 30443}]

PortLists == UNION {[1..n -> ServicePorts] : n \in 0..MaxPorts}

\* GetByKey finds nothing under the key
NoService == [exists |-> FALSE, type |-> "", ports |-> <<>>]

\* what the service store can hold under one key
Services ==
    {NoService} \cup [exists : {TRUE}, type : {"NodePort", "ClusterIP"}, ports : PortLists]

\* the backendPort values of a call
BackendPorts == {80, 443, 8080}

NoCall == [serviceKey |-> "", backendPort |-> 0]

\* a *int64 is <<>> when nil and <<n>> when it points to n; err is "nil" or
\* names the fmt.Errorf that made it
NoResult == [port |-> <<>>, err |-> "no call"]

----------------------------------------------------------------------------
(* Pure functions *)

\* Go map lookup: a missing key reads as the empty string
Annotation(spec) == IF spec.ann = NoAnn THEN "" ELSE spec.ann

\* a validIngress that compares the class without regard to case
Folded(str) == IF str = "ALB" THEN "alb" ELSE str

validIngressFold(class, spec) ==
    IF class = "" THEN TRUE
    ELSE IF Folded(Annotation(spec)) = Folded(class) THEN TRUE
    ELSE FALSE

validIngress(class, spec) ==
    IF class = "" THEN TRUE
    ELSE IF Annotation(spec) = class THEN TRUE
    ELSE FALSE

RECURSIVE findFrom(_, _, _)
findFrom(list, b, k) ==
    IF k > Len(list) THEN -1
    ELSE IF list[k].id = b.id THEN k
    ELSE findFrom(list, b, k + 1)

\* ALBIngressesT.find: position (from 1) of the first entity with b's identity, or -1
find(list, b) == findFrom(list, b, 1)

StripDesiredState(e) == [e EXCEPT !.desired = Empty]

NewALBIngressFromLoadBalancer(arn) ==
    [ok |-> OwnerOf(arn) # NoId,
     ent |-> [id |-> OwnerOf(arn), desired |-> Empty, lbs |-> <<arn>>, tainted |-> FALSE]]

\* the entity built for a resource: desired state from the resource, the load
\* balancers last known for its identity carried over from the tracked set
NewALBIngressFromIngress(spec, tracked) ==
    LET probe == [id |-> spec.id]
        i == find(tracked, probe)
        ent == [id |-> spec.id,
                desired |-> IF spec.outcome = "ok" THEN "full" ELSE "partial",
                lbs |-> IF i >= 0 THEN tracked[i].lbs ELSE <<>>,
                tainted |-> FALSE]
    IN [isNil |-> spec.outcome = "nil",
        err |-> spec.outcome = "partial",
        ent |-> ent]

\* an OnUpdate loop that leaves out the validIngress check
AddIngressUnfiltered(class, acc, spec, tracked) ==
    LET r == NewALBIngressFromIngress(spec, tracked)
    IN IF r.isNil THEN acc
       ELSE Append(acc, IF r.err THEN [r.ent EXCEPT !.tainted = TRUE] ELSE r.ent)

\* an OnUpdate loop that skips a resource whose builder returned an error
AddIngressDropFailed(class, acc, spec, tracked) ==
    IF ~validIngress(class, spec) THEN acc
    ELSE LET r == NewALBIngressFromIngress(spec, tracked)
         IN IF r.isNil \/ r.err THEN acc ELSE Append(acc, r.ent)

\* an OnUpdate loop that keeps the taint of the tracked entity of the same
\* identity on the entity it builds
AddIngressStickyTaint(class, acc, spec, tracked) ==
    IF ~validIngress(class, spec) THEN acc
    ELSE LET r == NewALBIngressFromIngress(spec, tracked)
             i == find(tracked, r.ent)
             was == i >= 0 /\ tracked[i].tainted
         IN IF r.isNil THEN acc
            ELSE Append(acc, IF r.err \/ was THEN [r.ent EXCEPT !.tainted = TRUE] ELSE r.ent)

\* one iteration of OnUpdate's loop over the listed resources
AddIngress(class, acc, spec, tracked) ==
    IF ~validIngress(class, spec) THEN acc
    ELSE LET r == NewALBIngressFromIngress(spec, tracked)
         IN IF r.isNil THEN acc
            ELSE Append(acc, IF r.err THEN [r.ent EXCEPT !.tainted = TRUE] ELSE r.ent)

RECURSIVE BuildFrom(_, _, _, _, _)
BuildFrom(class, l, tracked, k, acc) ==
    IF k > Len(l) THEN acc
    ELSE BuildFrom(class, l, tracked, k + 1, AddIngress(class, acc, l[k], tracked))

\* OnUpdate's loop: the new list built from the listed resources
BuildList(class, l, tracked) == BuildFrom(class, l, tracked, 1, <<>>)

\* ingressToDelete tests that leave out the taint check, the load balancer
\* check, or the lookup in the new list
DeletesTainted(e, list) == find(list, e) < 0 /\ Len(e.lbs) > 0

DeletesWithoutLB(e, list) == ~e.tainted /\ find(list, e) < 0

DeletesFound(e, list) == ~e.tainted /\ Len(e.lbs) > 0

\* ingressToDelete's test on one tracked entity
Deletes(e, list) == ~e.tainted /\ find(list, e) < 0 /\ Len(e.lbs) > 0

RECURSIVE DeleteFrom(_, _, _, _)
DeleteFrom(tracked, list, k, acc) ==
    IF k > Len(tracked) THEN acc
    ELSE DeleteFrom(tracked, list, k + 1,
                    IF Deletes(tracked[k], list)
                    THEN Append(acc, StripDesiredState(tracked[k]))
                    ELSE acc)

\* an ingressToDelete that also returns, as they are, the tainted entities
\* missing from the new list
ingressToDeleteKeepTainted(tracked, list) ==
    DeleteFrom(tracked, list, 1, <<>>)
        \o SelectSeq(tracked, LAMBDA e : e.tainted /\ find(list, e) < 0)

\* an ingressToDelete that looks the tracked entities up in an empty list
\* instead of the new one
ingressToDeleteUnmatched(tracked, list) == DeleteFrom(tracked, <<>>, 1, <<>>)

\* ingressToDelete: the returned list
ingressToDelete(tracked, list) == DeleteFrom(tracked, list, 1, <<>>)

\* ingressToDelete strips the tracked entities in place
StrippedInPlace(tracked, list) ==
    [k \in 1..Len(tracked) |->
        IF Deletes(tracked[k], list) THEN StripDesiredState(tracked[k]) ELSE tracked[k]]

\* an OnUpdate that stores the new list without the deletable entities
StoredNewOnly(list, del) == list

\* lines 88-94: what OnUpdate stores
Stored(list, del) == IF Len(del) > 0 THEN list \o del ELSE list

\* the orders in which List() can return the resources of the store
Present == {id \in Ids : store[id] # NoSpec}

Listings ==
    {l \in [1..Cardinality(Present) -> {store[id] : id \in Present}] :
        \A i, j \in 1..Cardinality(Present) : i # j => l[i] # l[j]}

Range(s) == {s[k] : k \in 1..Len(s)}

\* lines 197-201: the loop over Spec.Ports from position k, 0 when it ends
\* without a port equal to backendPort
RECURSIVE portFrom(_, _, _)
portFrom(ports, backendPort, k) ==
    IF k > Len(ports) THEN 0
    ELSE IF ports[k].Port = backendPort THEN k
    ELSE portFrom(ports, backendPort, k + 1)

\* a GetServiceNodePort that looks for the port before it tests the type
GetServiceNodePortAnyType(svcs, serviceKey, backendPort) ==
    LET item == svcs[serviceKey]
        k == portFrom(item.ports, backendPort, 1)
    IN IF ~item.exists
       THEN [port |-> <<>>, err |-> "Unable to find the service"]
       ELSE IF k > 0
       THEN [port |-> <<item.ports[k].NodePort>>, err |-> "nil"]
       ELSE IF item.type # "NodePort"
       THEN [port |-> <<>>, err |-> "service is not of type NodePort"]
       ELSE [port |-> <<>>, err |-> "Unable to find a port defined in the service"]

\* GetServiceNodePort, lines 182-203
GetServiceNodePort(svcs, serviceKey, backendPort) ==
    LET item == svcs[serviceKey]
        k == portFrom(item.ports, backendPort, 1)
    IN IF ~item.exists
       THEN [port |-> <<>>, err |-> "Unable to find the service"]
       ELSE IF item.type # "NodePort"
       THEN [port |-> <<>>, err |-> "service is not of type NodePort"]
       ELSE IF k > 0
       THEN [port |-> <<item.ports[k].NodePort>>, err |-> "nil"]
       ELSE [port |-> <<>>, err |-> "Unable to find a port defined in the service"]

----------------------------------------------------------------------------
(* Entity convergence (external collaborator) *)

MinOf(S) == CHOOSE x \in S : \A y \in S : x <= y

\* the load balancer convergence creates for an identity
CreatedFor(id) == MinOf({a \in Arns : OwnerOf(a) = id})

\* ALBIngress.Reconcile on one entity: tear down when the desired state is
\* stripped, create a load balancer when none exists, and nothing on failure
Reconcile(e, ok) ==
    IF ~ok THEN e
    ELSE IF e.desired = Empty THEN [e EXCEPT !.lbs = <<>>]
    ELSE IF e.lbs = <<>> THEN [e EXCEPT !.lbs = <<CreatedFor(e.id)>>]
    ELSE e

----------------------------------------------------------------------------
(* State machine *)

\* Reload has not returned
NoReturn == [data |-> "", reloaded |-> FALSE, err |-> "none"]

\* line 128: return []byte(""), true, nil
ReloadResult == [data |-> "", reloaded |-> TRUE, err |-> "nil"]

\* a Reload that starts no goroutine for the last entity
UnitsButLast(list) == 1..(Len(list) - 1)

\* lines 119-125: the entities Reload starts a goroutine for
Units(list) == 1..Len(list)

NoUnits == [a \in Arns |-> "none"]

NoLocal == [i |-> 0, p |-> 0, lbs |-> <<>>, hdr |-> <<>>]

\* the tracked set a reader sees while the discovery goroutines share it
Deref(r, o) ==
    [k \in 1..Len(r) |->
        [id |-> OwnerOf(r[k]), desired |-> Empty, lbs |-> o[r[k]], tainted |-> FALSE]]

\* positions of a discovery goroutine between its find and the end of its
\* append or merge
Inside == {"merge", "load", "grow", "append", "write"}

Overlap(u) == \E a, b \in Arns : a # b /\ u[a] \in Inside /\ u[b] \in Inside

InitController ==
    /\ IngressClass \in {"", "alb"}
    /\ store = [id \in Ids |-> NoSpec]
    /\ ALBIngresses = <<>>
    /\ pc = "idle"
    /\ upc = NoUnits
    /\ ulocal = [a \in Arns |-> NoLocal]
    /\ refs = <<>>
    /\ objLbs = [a \in Arns |-> <<>>]
    /\ newList = <<>>
    /\ deletable = <<>>
    /\ pending = {}
    /\ prevSet = <<>>
    /\ listed = <<>>
    /\ fresh = FALSE
    /\ repeat = FALSE
    /\ assembled = FALSE
    /\ raced = FALSE
    /\ ran = <<>>
    /\ ret = NoReturn
    /\ listErr = FALSE
    /\ gone = {}

Init ==
    /\ InitController
    /\ services = [k \in ServiceKeys |-> NoService]
    /\ call = NoCall
    /\ result = NoResult

\* what is known of the last Reload is dropped when the next operation begins
ForgetReload ==
    /\ ran' = <<>>
    /\ ret' = NoReturn

\* the record of the last cycle is dropped once the state it describes changes
Forget ==
    /\ newList' = <<>>
    /\ deletable' = <<>>
    /\ prevSet' = <<>>
    /\ listed' = <<>>
    /\ fresh' = FALSE
    /\ repeat' = FALSE

\* the cluster adds, changes or removes an ingress resource. The store is read
\* by List() in OnUpdate alone, so a change is taken where the next List() can
\* see it: before an OnUpdate that goes straight to its loop, or before the
\* loop of an OnUpdate that has assembled first
StoreChange ==
    /\ \/ pc = "idle" /\ ALBIngresses # <<>>
       \/ pc = "build"
    /\ \E id \in Ids : \E v \in SpecsOf(id) \cup {NoSpec} :
          /\ v # store[id]
          /\ store' = [store EXCEPT ![id] = v]
          /\ gone' = IF v # NoSpec THEN gone \ {id} ELSE gone
    /\ upc' = IF pc = "build" THEN upc ELSE NoUnits
    /\ Forget
    /\ ForgetReload
    /\ UNCHANGED <<listErr, portVars,
                   IngressClass, ALBIngresses, pc, ulocal, refs, objLbs,
                   pending, assembled, raced>>

\* an assembleIngresses that logs the error of DescribeLoadBalancers and
\* returns with no load balancer listed
AssembleFatalGoesOn ==
    /\ pc = "idle"
    /\ ALBIngresses = <<>>
    /\ listErr' = TRUE
    /\ pc' = "build"
    /\ upc' = NoUnits
    /\ assembled' = TRUE
    /\ Forget
    /\ ForgetReload
    /\ UNCHANGED <<gone, portVars,
                   IngressClass, store, ALBIngresses, ulocal, refs, objLbs,
                   pending, raced>>

\* OnUpdate on a nil tracked set: assembleIngresses, DescribeLoadBalancers
\* fails and glog.Fatal ends the process
AssembleFatal ==
    /\ pc = "idle"
    /\ ALBIngresses = <<>>
    /\ listErr' = TRUE
    /\ pc' = "fatal"
    /\ upc' = NoUnits
    /\ assembled' = TRUE
    /\ Forget
    /\ ForgetReload
    /\ UNCHANGED <<gone, portVars,
                   IngressClass, store, ALBIngresses, ulocal, refs, objLbs,
                   pending, raced>>

\* OnUpdate on a nil tracked set: assembleIngresses starts one goroutine per
\* load balancer that DescribeLoadBalancers lists
AssembleStart ==
    /\ pc = "idle"
    /\ ALBIngresses = <<>>
    /\ pc' = "assemble"
    /\ \E loadBalancers \in SUBSET Arns :
          upc' = [a \in Arns |-> IF a \in loadBalancers THEN "new" ELSE "none"]
    /\ assembled' = TRUE
    /\ Forget
    /\ ForgetReload
    /\ UNCHANGED <<listErr, gone, portVars,
                   IngressClass, store, ALBIngresses, ulocal, refs, objLbs,
                   pending, raced>>

\* lines 253-258: make the entity, look its identity up in the shared set
UnitFind(a) ==
    /\ pc = "assemble"
    /\ upc[a] = "new"
    /\ LET r == NewALBIngressFromLoadBalancer(a)
           i == find(ALBIngresses, r.ent)
       IN IF ~r.ok
          THEN /\ upc' = [upc EXCEPT ![a] = "done"]
               /\ UNCHANGED <<ulocal, objLbs>>
          ELSE /\ objLbs' = [objLbs EXCEPT ![a] = r.ent.lbs]
               /\ upc' = [upc EXCEPT ![a] = IF i >= 0 THEN "merge" ELSE "append"]
               /\ ulocal' = [ulocal EXCEPT ![a].i = i]
    /\ raced' = (raced \/ Overlap(upc'))
    /\ UNCHANGED <<ran, ret, listErr, gone, portVars,
                   IngressClass, store, ALBIngresses, pc, refs,
                   newList, deletable, pending, prevSet, listed, fresh, repeat, assembled>>

\* line 259: albIngress = ac.ALBIngresses[i], on the slice as it is now; an
\* index past its end is a run-time panic
UnitIndex(a) ==
    /\ pc = "assemble"
    /\ upc[a] = "merge"
    /\ IF ulocal[a].i > Len(refs)
       THEN /\ pc' = "panic"
            /\ UNCHANGED <<upc, ulocal>>
       ELSE /\ ulocal' = [ulocal EXCEPT ![a].p = refs[ulocal[a].i]]
            /\ upc' = [upc EXCEPT ![a] = "load"]
            /\ pc' = pc
    /\ UNCHANGED <<ran, ret, listErr, gone, portVars,
                   IngressClass, store, ALBIngresses, refs, objLbs, newList, deletable,
                   pending, prevSet, listed, fresh, repeat, assembled, raced>>

\* line 260, right-hand side: read albIngress.LoadBalancers
UnitLoad(a) ==
    /\ pc = "assemble"
    /\ upc[a] = "load"
    /\ ulocal' = [ulocal EXCEPT ![a].lbs = objLbs[ulocal[a].p]]
    /\ upc' = [upc EXCEPT ![a] = "grow"]
    /\ UNCHANGED <<ran, ret, listErr, gone, portVars,
                   IngressClass, store, ALBIngresses, pc, refs, objLbs, newList, deletable,
                   pending, prevSet, listed, fresh, repeat, assembled, raced>>

\* line 260: the load balancers of the entity found, with the discovered one merged in
Merged(lbs, arn) == Append(lbs, lbs[1])

\* line 260, assignment: albIngress.LoadBalancers = append(...)
UnitGrow(a) ==
    /\ pc = "assemble"
    /\ upc[a] = "grow"
    /\ objLbs' = [objLbs EXCEPT ![ulocal[a].p] = Merged(ulocal[a].lbs, a)]
    /\ ALBIngresses' = Deref(refs, objLbs')
    /\ upc' = [upc EXCEPT ![a] = "done"]
    /\ ulocal' = [ulocal EXCEPT ![a] = NoLocal]
    /\ UNCHANGED <<ran, ret, listErr, gone, portVars,
                   IngressClass, store, pc, refs, newList, deletable,
                   pending, prevSet, listed, fresh, repeat, assembled, raced>>

\* line 262, right-hand side: read ac.ALBIngresses
UnitRead(a) ==
    /\ pc = "assemble"
    /\ upc[a] = "append"
    /\ ulocal' = [ulocal EXCEPT ![a].hdr = refs]
    /\ upc' = [upc EXCEPT ![a] = "write"]
    /\ UNCHANGED <<ran, ret, listErr, gone, portVars,
                   IngressClass, store, ALBIngresses, pc, refs, objLbs, newList, deletable,
                   pending, prevSet, listed, fresh, repeat, assembled, raced>>

\* line 262, assignment: ac.ALBIngresses = append(...)
UnitWrite(a) ==
    /\ pc = "assemble"
    /\ upc[a] = "write"
    /\ refs' = Append(ulocal[a].hdr, a)
    /\ ALBIngresses' = Deref(refs', objLbs)
    /\ upc' = [upc EXCEPT ![a] = "done"]
    /\ ulocal' = [ulocal EXCEPT ![a] = NoLocal]
    /\ UNCHANGED <<ran, ret, listErr, gone, portVars,
                   IngressClass, store, pc, objLbs, newList, deletable,
                   pending, prevSet, listed, fresh, repeat, assembled, raced>>

\* line 266: wg.Wait() returns, OnUpdate goes on
AssembleWait ==
    /\ pc = "assemble"
    /\ \A a \in Arns : upc[a] \in {"none", "done"}
    /\ pc' = "build"
    /\ ulocal' = [a \in Arns |-> NoLocal]
    /\ refs' = <<>>
    /\ objLbs' = [a \in Arns |-> <<>>]
    /\ UNCHANGED <<ran, ret, listErr, gone, portVars,
                   IngressClass, store, ALBIngresses, upc, newList, deletable,
                   pending, prevSet, listed, fresh, repeat, assembled, raced>>

\* the identities that leave the tracked set with this cycle, their load
\* balancers torn down and no resource in the store
TornDown(tracked, next) ==
    {tracked[k].id : k \in {j \in 1..Len(tracked) :
        /\ ~tracked[j].tainted
        /\ tracked[j].desired = Empty
        /\ tracked[j].lbs = <<>>
        /\ store[tracked[j].id] = NoSpec
        /\ \A n \in 1..Len(next) : next[n].id # tracked[j].id}}

\* lines 62-85: list the resources, build the new list, and ingressToDelete,
\* which strips the tracked entities it returns
Build ==
    /\ \/ pc = "build"
       \/ pc = "idle" /\ ALBIngresses # <<>>
    /\ \E l \in Listings :
          LET list == BuildList(IngressClass, l, ALBIngresses)
          IN /\ newList' = list
             /\ deletable' = ingressToDelete(ALBIngresses, list)
             /\ ALBIngresses' = StrippedInPlace(ALBIngresses, list)
             /\ listed' = l
             /\ repeat' = (pc = "idle" /\ fresh /\ Range(l) = Range(listed))
    /\ prevSet' = ALBIngresses
    /\ fresh' = FALSE
    /\ pc' = "store"
    /\ upc' = IF pc = "build" THEN upc ELSE NoUnits
    /\ raced' = FALSE
    /\ ForgetReload
    /\ UNCHANGED <<listErr, gone, portVars,
                   IngressClass, store, ulocal, refs, objLbs, pending, assembled>>

\* lines 88-95: the new list replaces the tracked set
Store ==
    /\ pc = "store"
    /\ ALBIngresses' = Stored(newList, deletable)
    /\ fresh' = TRUE
    /\ gone' = gone \cup TornDown(prevSet, Stored(newList, deletable))
    /\ pc' = "idle"
    /\ UNCHANGED <<ran, ret, listErr, portVars,
                   IngressClass, store, upc, ulocal, refs, objLbs, newList, deletable,
                   pending, prevSet, listed, repeat, assembled, raced>>

\* Reload, lines 115-125: one goroutine per tracked entity
ReloadStart ==
    /\ pc = "idle"
    /\ pending' = Units(ALBIngresses)
    /\ ran' = [i \in 1..Len(ALBIngresses) |-> 0]
    /\ ret' = NoReturn
    /\ pc' = "reload"
    /\ upc' = NoUnits
    /\ Forget
    /\ UNCHANGED <<listErr, gone, portVars,
                   IngressClass, store, ALBIngresses, ulocal, refs, objLbs,
                   assembled, raced>>

\* a goroutine whose failed Reconcile ends the Reload for the goroutines that
\* have not run yet
ReconcileUnitAborting(i) ==
    /\ pc = "reload"
    /\ i \in pending
    /\ \E ok \in BOOLEAN :
          /\ ALBIngresses' = [ALBIngresses EXCEPT ![i] = Reconcile(ALBIngresses[i], ok)]
          /\ pending' = IF ok THEN pending \ {i} ELSE {}
    /\ ran' = [ran EXCEPT ![i] = @ + 1]
    /\ UNCHANGED <<ret, listErr, gone, portVars,
                   IngressClass, store, pc, upc, ulocal, refs, objLbs, newList, deletable,
                   prevSet, listed, fresh, repeat, assembled, raced>>

\* lines 121-124: one goroutine runs Reconcile and calls wg.Done
ReconcileUnit(i) ==
    /\ pc = "reload"
    /\ i \in pending
    /\ \E ok \in BOOLEAN :
          ALBIngresses' = [ALBIngresses EXCEPT ![i] = Reconcile(ALBIngresses[i], ok)]
    /\ pending' = pending \ {i}
    /\ ran' = [ran EXCEPT ![i] = @ + 1]
    /\ UNCHANGED <<ret, listErr, gone, portVars,
                   IngressClass, store, pc, upc, ulocal, refs, objLbs, newList, deletable,
                   prevSet, listed, fresh, repeat, assembled, raced>>

ReconcileUnits == \E i \in pending : ReconcileUnit(i)

\* lines 127-128: wg.Wait() returns
ReloadReturn ==
    /\ pc = "reload"
    /\ pending = {}
    /\ ret' = ReloadResult
    /\ pc' = "idle"
    /\ UNCHANGED <<ran, listErr, gone, portVars,
                   IngressClass, store, ALBIngresses, upc, ulocal, refs, objLbs,
                   newList, deletable, pending, prevSet, listed, fresh, repeat,
                   assembled, raced>>

Next ==
    \/ StoreChange
    \/ AssembleFatal
    \/ AssembleStart
    \/ \E a \in Arns : UnitFind(a)
    \/ \E a \in Arns : UnitIndex(a)
    \/ \E a \in Arns : UnitLoad(a)
    \/ \E a \in Arns : UnitGrow(a)
    \/ \E a \in Arns : UnitRead(a)
    \/ \E a \in Arns : UnitWrite(a)
    \/ AssembleWait
    \/ Build
    \/ Store
    \/ ReloadStart
    \/ ReconcileUnits
    \/ ReloadReturn

Spec == Init /\ [][Next]_vars

\* Reload under the Go scheduler: a goroutine that can run does run, and
\* wg.Wait returns once the counter is zero
FairSpec == Spec /\ WF_vars(ReconcileUnits) /\ WF_vars(ReloadReturn)

----------------------------------------------------------------------------
(* GetServiceNodePort on its own: any service store, any call *)

InitPort ==
    /\ InitController
    /\ services \in [ServiceKeys -> Services]
    /\ call = NoCall
    /\ result = NoResult

GetServiceNodePortCall ==
    /\ \E serviceKey \in ServiceKeys : \E backendPort \in BackendPorts :
          /\ call' = [serviceKey |-> serviceKey, backendPort |-> backendPort]
          /\ result' = GetServiceNodePort(services, serviceKey, backendPort)
    /\ UNCHANGED <<services, ctlVars>>

NextPort == GetServiceNodePortCall

PortSpec == InitPort /\ [][NextPort]_vars

\* lines 231-234: what a StateHandler call that runs now encodes; it takes no
\* lock and can run between any two steps of the sync goroutine
StateHandler == ALBIngresses

----------------------------------------------------------------------------
(* Properties *)

IdsOf(list) == {list[k].id : k \in 1..Len(list)}

\* OnUpdate has returned and nothing has touched the tracked set since:
\* prevSet, listed, newList and ALBIngresses describe one diff cycle
CycleDone == pc = "idle" /\ fresh

\* a tracked entity of the previous set whose identity the new list lacks
Orphan(k) == prevSet[k].id \notin IdsOf(newList)

\* C1: after a diff cycle, every entity of the previous set that is not
\* tainted, has a load balancer and whose identity the new list lacks is in
\* the stored set with its desired state empty and its load balancers as before
C1_DeletionPendingKept ==
    CycleDone =>
        \A k \in 1..Len(prevSet) :
            (~prevSet[k].tainted /\ Len(prevSet[k].lbs) > 0 /\ Orphan(k)) =>
                \E j \in 1..Len(ALBIngresses) :
                    /\ ALBIngresses[j].id = prevSet[k].id
                    /\ ALBIngresses[j].desired = Empty
                    /\ ALBIngresses[j].lbs = prevSet[k].lbs

C1_Witness ==
    /\ CycleDone
    /\ \E k \in 1..Len(prevSet) :
          /\ ~prevSet[k].tainted /\ Len(prevSet[k].lbs) > 0 /\ Orphan(k)
          /\ prevSet[k].desired # Empty

\* C2: a tainted entity of the previous set whose identity the new list lacks
\* is left as it is by ingressToDelete, is not returned as deletable, and no
\* entity of its identity is in the stored set, with or without load balancers
C2_TaintedNotDeleted ==
    \A k \in 1..Len(prevSet) :
        (prevSet[k].tainted /\ Orphan(k)) =>
            /\ pc = "store" => ALBIngresses[k] = prevSet[k]
            /\ (pc = "store" \/ CycleDone) => prevSet[k].id \notin IdsOf(deletable)
            /\ CycleDone => prevSet[k].id \notin IdsOf(ALBIngresses)

C2_Witness ==
    /\ CycleDone
    /\ \E k \in 1..Len(prevSet) :
          prevSet[k].tainted /\ Orphan(k) /\ Len(prevSet[k].lbs) > 0
    /\ \E k \in 1..Len(prevSet) :
          prevSet[k].tainted /\ Orphan(k) /\ Len(prevSet[k].lbs) = 0

\* the identities of the resources the last cycle listed
ListedIds == {listed[k].id : k \in 1..Len(listed)}

\* C3 as claimed: an entity stored tainted by one cycle, whose resource the
\* next cycle does not list, is still in the set the next cycle stores, tainted
C3_TaintedRetained ==
    CycleDone =>
        \A k \in 1..Len(prevSet) :
            (prevSet[k].tainted /\ prevSet[k].id \notin ListedIds) =>
                \E j \in 1..Len(ALBIngresses) :
                    ALBIngresses[j].id = prevSet[k].id /\ ALBIngresses[j].tainted

\* C3 as amended: an entity stored tainted by one cycle, whose resource the
\* next cycle does not list, is dropped: the set the next cycle stores holds
\* no entity of its identity, stripped or not
C3_TaintedDropped ==
    CycleDone =>
        \A k \in 1..Len(prevSet) :
            (prevSet[k].tainted /\ prevSet[k].id \notin ListedIds) =>
                \A j \in 1..Len(ALBIngresses) : ALBIngresses[j].id # prevSet[k].id

C3_Witness ==
    /\ CycleDone
    /\ \E k \in 1..Len(prevSet) :
          /\ prevSet[k].tainted
          /\ prevSet[k].id \notin ListedIds
          /\ Len(prevSet[k].lbs) > 0
    /\ ALBIngresses # <<>>

\* C4: assembleIngresses is entered in the first diff cycle and never again
C4_BootstrapOnce ==
    [][assembled => ~(pc = "idle" /\ pc' \in {"assemble", "fatal"})]_vars

\* the load balancers the listing returned, once every goroutine is done
Discovered == {a \in Arns : upc[a] = "done"}

\* C5: after a bootstrap whose goroutines ran one after the other, two
\* discovered load balancers of one identity are both among the load
\* balancers of the one entity of that identity
C5_BootstrapMerge ==
    (pc = "build" /\ ~raced) =>
        \A a, b \in Discovered :
            (a # b /\ OwnerOf(a) # NoId /\ OwnerOf(a) = OwnerOf(b)) =>
                /\ Cardinality({k \in 1..Len(ALBIngresses) :
                                   ALBIngresses[k].id = OwnerOf(a)}) = 1
                /\ \E k \in 1..Len(ALBIngresses) :
                      /\ ALBIngresses[k].id = OwnerOf(a)
                      /\ {a, b} \subseteq Range(ALBIngresses[k].lbs)

\* C6: the set the bootstrap leaves holds no two entities of one identity
C6_BootstrapUnique ==
    pc = "build" =>
        \A j, k \in 1..Len(ALBIngresses) :
            j # k => ALBIngresses[j].id # ALBIngresses[k].id

\* C7: an entity of the previous set that is not tainted, has no load balancer
\* and whose identity the new list lacks is not in the stored set
C7_ConvergedDropped ==
    CycleDone =>
        \A k \in 1..Len(prevSet) :
            (~prevSet[k].tainted /\ Len(prevSet[k].lbs) = 0 /\ Orphan(k)) =>
                \A j \in 1..Len(ALBIngresses) :
                    ALBIngresses[j].id = prevSet[k].id =>
                        Len(ALBIngresses[j].lbs) > 0

C7_Witness ==
    /\ CycleDone
    /\ \E k \in 1..Len(prevSet) :
          ~prevSet[k].tainted /\ Len(prevSet[k].lbs) = 0 /\ Orphan(k)
    /\ ALBIngresses # <<>>

\* how many times an entity occurs in a list
Times(list, e) == Cardinality({k \in 1..Len(list) : list[k] = e})

SameEntities(s, t) ==
    /\ Len(s) = Len(t)
    /\ \A e \in Range(s) \cup Range(t) : Times(s, e) = Times(t, e)

\* C8: a diff cycle that follows another with the same resources listed, no
\* Reload in between and no bootstrap stores the entities the first one stored
C8_DiffIdempotent ==
    (CycleDone /\ repeat) => SameEntities(ALBIngresses, prevSet)

C8_Witness ==
    /\ CycleDone
    /\ repeat
    /\ newList # <<>>
    /\ deletable # <<>>
    /\ \E k \in 1..Len(ALBIngresses) : ALBIngresses[k].tainted

\* a resource the claim calls invisible: its class is not the controller's,
\* or the builder returns nil for it
Invisible(spec) ==
    \/ ~(IngressClass = "" \/ spec.ann = IngressClass)
    \/ spec.outcome = "nil"

Visible(spec) == ~Invisible(spec)

\* C9: an invisible resource puts no entity in the new list, and the stored
\* set is the one the diff makes of the same previous set and the listing
\* without the invisible resources
C9_InvisibleAsAbsent ==
    CycleDone =>
        /\ \A k \in 1..Len(listed) :
              Invisible(listed[k]) => listed[k].id \notin IdsOf(newList)
        /\ LET list == BuildList(IngressClass, SelectSeq(listed, Visible), prevSet)
           IN ALBIngresses = Stored(list, ingressToDelete(prevSet, list))

C9_Witness ==
    /\ CycleDone
    /\ \E k \in 1..Len(listed) :
          /\ ~(IngressClass = "" \/ listed[k].ann = IngressClass)
          /\ listed[k].id \in IdsOf(deletable)
    /\ \E k \in 1..Len(listed) :
          /\ listed[k].outcome = "nil"
          /\ (IngressClass = "" \/ listed[k].ann = IngressClass)

\* C10: validIngress is true exactly when IngressClass is empty or the class
\* annotation is set and equals IngressClass; and OnUpdate builds exactly the
\* listed resources for which that holds (and the builder returns an entity)
C10_ValidIngress ==
    /\ \A id \in Ids : \A spec \in SpecsOf(id) :
          validIngress(IngressClass, spec) <=>
              (IngressClass = "" \/ (spec.ann # NoAnn /\ spec.ann = IngressClass))
    /\ CycleDone =>
          \A k \in 1..Len(listed) :
              listed[k].outcome # "nil" =>
                  (listed[k].id \in IdsOf(newList) <=>
                      (IngressClass = ""
                          \/ (listed[k].ann # NoAnn /\ listed[k].ann = IngressClass)))

C10_Witness ==
    /\ CycleDone
    /\ IngressClass = "alb"
    /\ \E k \in 1..Len(listed) : listed[k].ann = "ALB"
    /\ \E k \in 1..Len(listed) : listed[k].ann = "alb" /\ listed[k].outcome = "ok"
    /\ Len(newList) = 1

\* the positions in the stored set of the entities built for a resource
BuiltFor(spec) ==
    {j \in 1..Len(ALBIngresses) :
        ALBIngresses[j].id = spec.id /\ ALBIngresses[j].desired # Empty}

\* C11: after a diff cycle, for every listed resource that validIngress
\* accepts, the stored set holds a built entity of its identity exactly when
\* the builder returned an entity, and that entity is tainted exactly when the
\* builder returned an error with it; the resources listed with a failed one
\* are built and stored all the same
C11_BuiltUnlessNil ==
    CycleDone =>
        \A k \in 1..Len(listed) :
            validIngress(IngressClass, listed[k]) =>
                /\ (BuiltFor(listed[k]) # {}) <=> (listed[k].outcome # "nil")
                /\ \A j \in BuiltFor(listed[k]) :
                      ALBIngresses[j].tainted <=> (listed[k].outcome = "partial")

C11_Witness ==
    /\ CycleDone
    /\ Len(listed) = 2
    /\ listed[1].outcome = "partial" /\ validIngress(IngressClass, listed[1])
    /\ listed[2].outcome = "ok" /\ validIngress(IngressClass, listed[2])
    /\ Len(newList) = 2
    /\ \E j \in 1..Len(ALBIngresses) : ALBIngresses[j].tainted

\* while Reload runs, every entity of the tracked set has had one Reconcile
\* call or has its goroutine waiting to run, any waiting goroutine can run
\* next, and Reload can return exactly when none is waiting; once Reload has
\* returned, every entity has had exactly one Reconcile call
ReloadUnits ==
    /\ pc = "reload" =>
          /\ Len(ran) = Len(ALBIngresses)
          /\ \A i \in 1..Len(ALBIngresses) : ran[i] = IF i \in pending THEN 0 ELSE 1
          /\ \A i \in pending : ENABLED ReconcileUnit(i)
          /\ (ENABLED ReloadReturn) <=> (pending = {})
    /\ ret = ReloadResult =>
          /\ Len(ran) = Len(ALBIngresses)
          /\ \A i \in 1..Len(ALBIngresses) : ran[i] = 1

\* C12: Reload starts one Reconcile goroutine for each entity of the tracked
\* set, all able to run at once, and returns only when each has run once;
\* with every goroutine scheduled and ending, Reload returns
C12_ReloadWaitsForAll ==
    /\ []ReloadUnits
    /\ (pc = "reload") ~> (ret = ReloadResult)

C12_Witness ==
    /\ ret = ReloadResult
    /\ Len(ALBIngresses) = 3
    /\ \E i \in 1..Len(ALBIngresses) : ALBIngresses[i].desired = Empty
    /\ \E i \in 1..Len(ALBIngresses) : ALBIngresses[i].desired # Empty

\* the Reconcile call made for entity i in this Reload failed: a call that
\* succeeds leaves an entity that a second call would not change
FailedUnit(i) ==
    ran[i] > 0 /\ Reconcile(ALBIngresses[i], TRUE) # ALBIngresses[i]

\* C13: once the Reconcile call of one entity has failed in a Reload, the
\* goroutine of every other entity can still run, the Reload can go on, and
\* when it returns every entity has had its call and the error returned is nil
C13_FailureIsolated ==
    \A a \in 1..Len(ran) :
        FailedUnit(a) =>
            /\ pc = "reload" =>
                  /\ \A b \in pending : ENABLED ReconcileUnit(b)
                  /\ ENABLED (ReconcileUnits \/ ReloadReturn)
            /\ ret # NoReturn =>
                  /\ \A b \in 1..Len(ran) : ran[b] = 1
                  /\ ret.reloaded /\ ret.err = "nil"

C13_Witness ==
    /\ ret = ReloadResult
    /\ \E a, b \in 1..Len(ran) :
          /\ FailedUnit(a)
          /\ ALBIngresses[a].desired = Empty
          /\ b > a
          /\ ALBIngresses[b].desired = Empty /\ ALBIngresses[b].lbs = <<>>

\* C14: a StateHandler call that runs during a diff cycle reads the tracked
\* set as the cycle found it, entities unchanged, or the set the cycle stores:
\* while the discovery goroutines run it reads the nil set of before, and
\* between ingressToDelete and the assignment of line 94 the previous set
C14_ReaderSeesWholeSets ==
    /\ pc = "assemble" => StateHandler = <<>>
    /\ pc = "store" => StateHandler \in {prevSet, Stored(newList, deletable)}

\* C15: once DescribeLoadBalancers has failed the process is over: no
\* discovery goroutine was started, nothing was built or found deletable, the
\* tracked set is the nil set it was, no Reload runs and no step follows
C15_ListingFailureFatal ==
    listErr =>
        /\ pc = "fatal"
        /\ \A a \in Arns : upc[a] = "none"
        /\ newList = <<>> /\ deletable = <<>> /\ ~fresh
        /\ ALBIngresses = <<>>
        /\ pending = {}
        /\ ~ENABLED Next

C15_Witness ==
    /\ listErr
    /\ pc = "fatal"
    /\ \E id \in Ids : store[id] # NoSpec /\ validIngress(IngressClass, store[id])

\* the positions of the declared ports whose Port is the backendPort of the call
Hits == {k \in 1..Len(services[call.serviceKey].ports) :
            services[call.serviceKey].ports[k].Port = call.backendPort}

\* C16: GetServiceNodePort returns no port and an error when the service is
\* not in the store; else when its type is not NodePort, whatever its ports;
\* else when no declared port has Port equal to backendPort; and otherwise
\* the NodePort of the first declared port with that Port, and no error
C16_ServiceNodePort ==
    result # NoResult =>
        LET item == services[call.serviceKey]
        IN /\ ~item.exists =>
                 result = [port |-> <<>>, err |-> "Unable to find the service"]
           /\ (item.exists /\ item.type # "NodePort") =>
                 result = [port |-> <<>>, err |-> "service is not of type NodePort"]
           /\ (item.exists /\ item.type = "NodePort" /\ Hits = {}) =>
                 result = [port |-> <<>>,
                           err |-> "Unable to find a port defined in the service"]
           /\ (item.exists /\ item.type = "NodePort" /\ Hits # {}) =>
                 result = [port |-> <<item.ports[MinOf(Hits)].NodePort>>, err |-> "nil"]

C16_Witness ==
    /\ result # NoResult
    /\ result.err = "nil"
    /\ Cardinality(Hits) = 2
    /\ \E j, k \in Hits :
          services[call.serviceKey].ports[j].NodePort
              # services[call.serviceKey].ports[k].NodePort

\* no two entities of a list have the same identity
UniqueIds(list) ==
    \A j, k \in 1..Len(list) : j # k => list[j].id # list[k].id

\* C17: a diff cycle that finds a tracked set without two entities of one
\* identity, and lists no two resources of one identity, stores a set without
\* two entities of one identity
C17_IdentityUnique ==
    (CycleDone /\ UniqueIds(prevSet) /\ UniqueIds(listed)) => UniqueIds(ALBIngresses)

C17_Witness ==
    /\ CycleDone
    /\ UniqueIds(prevSet) /\ UniqueIds(listed)
    /\ Len(listed) = 2
    /\ deletable # <<>>
    /\ \E k \in 1..Len(prevSet) :
          prevSet[k].id \in IdsOf(newList) /\ Len(prevSet[k].lbs) > 0

\* C18: after the cycle that bootstrapped, every load balancer the listing
\* returned whose name gives an identity is accounted for in the stored set:
\* there is an entity of that identity built from a listed resource, or a
\* stripped entity of that identity whose load balancers include it
C18_DiscoveredKept ==
    CycleDone =>
        \A a \in Discovered :
            OwnerOf(a) # NoId =>
                \E j \in 1..Len(ALBIngresses) :
                    /\ ALBIngresses[j].id = OwnerOf(a)
                    /\ \/ ALBIngresses[j].desired # Empty
                       \/ a \in Range(ALBIngresses[j].lbs)

\* a stripped, untainted entity of the previous set whose resource the cycle
\* did not list
PendingBefore(k) ==
    /\ ~prevSet[k].tainted
    /\ prevSet[k].desired = Empty
    /\ prevSet[k].id \notin ListedIds

\* the first two parts of C19: kept stripped while it has load balancers,
\* dropped by the first cycle that finds it without any
C19_KeptThenDropped ==
    CycleDone =>
        \A k \in 1..Len(prevSet) :
            PendingBefore(k) =>
                IF Len(prevSet[k].lbs) > 0
                THEN \E j \in 1..Len(ALBIngresses) :
                        /\ ALBIngresses[j].id = prevSet[k].id
                        /\ ALBIngresses[j].desired = Empty
                        /\ ALBIngresses[j].lbs = prevSet[k].lbs
                ELSE \A j \in 1..Len(ALBIngresses) :
                        ALBIngresses[j].id = prevSet[k].id => Len(ALBIngresses[j].lbs) > 0

\* C19: a stripped, untainted entity whose resource is absent is in the set
\* every cycle stores, stripped, while it has load balancers; the first cycle
\* that finds it without load balancers drops it; and once its identity has
\* left the tracked set that way, no entity of that identity is tracked
\* again for as long as the resource stays absent
C19_DeletionPendingUntilTornDown ==
    /\ C19_KeptThenDropped
    /\ CycleDone => \A id \in gone : id \notin IdsOf(ALBIngresses)

\* a stripped, untainted entity of the previous set that has load balancers
\* and whose resource the cycle lists, validIngress accepts and the builder
\* builds without error
Reappeared(k) ==
    /\ ~prevSet[k].tainted
    /\ prevSet[k].desired = Empty
    /\ Len(prevSet[k].lbs) > 0
    /\ \E n \in 1..Len(listed) :
          /\ listed[n].id = prevSet[k].id
          /\ validIngress(IngressClass, listed[n])
          /\ listed[n].outcome = "ok"

\* C20: when the resource of a stripped entity is listed again and builds,
\* the stored set holds one entity of that identity, the one built, with its
\* desired state and not tainted, and no stripped entity of that identity
C20_ReappearIsUpdate ==
    CycleDone =>
        \A k \in 1..Len(prevSet) :
            Reappeared(k) =>
                /\ Cardinality({j \in 1..Len(ALBIngresses) :
                                   ALBIngresses[j].id = prevSet[k].id}) = 1
                /\ \A j \in 1..Len(ALBIngresses) :
                      ALBIngresses[j].id = prevSet[k].id =>
                          /\ ALBIngresses[j].desired = "full"
                          /\ ~ALBIngresses[j].tainted
                          /\ ALBIngresses[j] \in Range(newList)

C20_Witness ==
    /\ CycleDone
    /\ \A a \in Arns : upc[a] = "none"
    /\ \E k \in 1..Len(prevSet) : Reappeared(k)
    /\ Len(ALBIngresses) = 2

\* a tainted entity of the previous set whose resource the cycle lists,
\* validIngress accepts and the builder builds without error
Repaired(k) ==
    /\ prevSet[k].tainted
    /\ \E n \in 1..Len(listed) :
          /\ listed[n].id = prevSet[k].id
          /\ validIngress(IngressClass, listed[n])
          /\ listed[n].outcome = "ok"

\* C21: when the entity of an identity was stored tainted by one cycle and the
\* builder returns an entity and no error for its resource in the next, the
\* set the next cycle stores holds one entity of that identity, not tainted
C21_TaintNotSticky ==
    CycleDone =>
        \A k \in 1..Len(prevSet) :
            Repaired(k) =>
                /\ Cardinality({j \in 1..Len(ALBIngresses) :
                                   ALBIngresses[j].id = prevSet[k].id}) = 1
                /\ \A j \in 1..Len(ALBIngresses) :
                      ALBIngresses[j].id = prevSet[k].id => ~ALBIngresses[j].tainted

C21_Witness ==
    /\ CycleDone
    /\ \E k \in 1..Len(prevSet) : Repaired(k) /\ Len(prevSet[k].lbs) > 0
    /\ Len(ALBIngresses) = 2

====
